---- MODULE Spec2Model ----
(***************************************************************************)
(* A model of onnxruntime::concurrency::ThreadPool (core/common/threadpool *)
(* .cc, kept as src/unnamed/part_000): the parallel-for entry points, the  *)
(* fixed-block-size splitting and the shard count, run by a calling thread *)
(* and the workers of the engine under every interleaving.                 *)
(*                                                                         *)
(* A thread is an integer: 0..nthreads-1 are the engine's workers, the     *)
(* negative numbers are threads outside the pool.  A parallel-for call is  *)
(* named by the thread that issued it; a thread issues one call at a time. *)
(* A worker becomes a caller when it runs a task closure (handed to        *)
(* Schedule by an outside thread) whose body is a parallel-for call.       *)
(*                                                                         *)
(* Spec: one outside thread calls an entry point or hands over a task.     *)
(* ConcurrentSpec: two outside threads call at the same time.              *)
(* FairSpec: an outside caller, threads that keep going and a fair engine. *)
(* FunSpec: CreateThreadPool (core/util/thread_utils.cc) and the shard     *)
(* count evaluated as functions over integer types of scaled-down width.   *)
(***************************************************************************)
EXTENDS Integers, FiniteSets, TLC

\* ------------------------------------------------------------------ bounds
MaxThreads == 2
NumOutside == 2
MaxIters == 3
MaxTotal == 5
MaxBlock == 2
MaxChunk == 2

VARIABLES
  nthreads,   \* underlying_threadpool_->NumThreads()
  pc,         \* pc[t]: where thread t is
  frame,      \* frame[t]: the closure / lambda activation thread t is running
  queue,      \* the engine's run queue: the closures scheduled and not yet taken
  req,        \* req[c]: the entry point and arguments of call c
  plan,       \* plan[c]: the algorithm the entry point of call c ended in
  status,     \* status[c]: none | active | returned | threw
  shards,     \* shards[c]: num_shards_used of call c, or the value a shard-count query returned
  counter,    \* counter[c]: count of the Barrier / BlockingCounter of call c
  nnotify,    \* nnotify[c]: Notify / DecrementCount calls made on it
  nsched,     \* nsched[c]: closures call c handed to Schedule
  loopid,     \* loopid[c]: the loop variable id of ParallelFor's scheduling loop
  log,        \* log[c]: the fn invocations of call c: [first, last, thread, id]
  ninv,       \* ninv[c]: how many fn invocations call c has started
  fcall,      \* the function under evaluation and its arguments (pure functions)
  fret        \* what it returned

vars == <<nthreads, pc, frame, queue, req, plan, status, shards, counter,
          nnotify, nsched, loopid, log, ninv, fcall, fret>>

Workers == 0..(MaxThreads - 1)
Outside == (0 - NumOutside)..(0 - 1)
Threads == Outside \cup Workers
MainThread == 0 - 1
PoolWorkers == 0..(nthreads - 1)

\* optional<T>
None == [has |-> FALSE, val |-> 0]
Some(v) == [has |-> TRUE, val |-> v]

\* ------------------------------------------------------------- the engine
\* ThreadPool::NumThreads
NumThreads == nthreads

\* ThreadPool::CurrentThreadId: the worker's index, -1 outside the pool
CurrentThreadId(t) == IF t \in PoolWorkers THEN t ELSE 0 - 1

\* ---------------------------------------------------------- shard counting
\* (variants with a slip: the thread count not consulted; the quotient rounded down)
NumShardsIgnoringThreads(total, block_size) ==
  IF block_size <= 0 \/ total <= 1 \/ total <= block_size
  THEN 1
  ELSE (total + block_size - 1) \div block_size

NumShardsFloor(total, block_size) ==
  IF block_size <= 0 \/ total <= 1 \/ total <= block_size \/ NumThreads = 1
  THEN 1
  ELSE total \div block_size

\* ThreadPool::NumShardsUsedByFixedBlockSizeScheduling
NumShardsUsedByFixedBlockSizeScheduling(total, block_size) ==
  IF block_size <= 0 \/ total <= 1 \/ total <= block_size \/ NumThreads = 1
  THEN 1
  ELSE (total + block_size - 1) \div block_size

\* ThreadPool::NumShardsUsedByTransformRangeConcurrently
NumShardsUsedByTransformRangeConcurrently(block_size, total) ==
  NumShardsUsedByFixedBlockSizeScheduling(total, block_size)

\* (variants with a slip: the midpoint not snapped to a block; first not added back)
MidUnaligned(first, last, block_size) == first + (last - first) \div 2

MidFromZero(first, last, block_size) ==
  ((((last - first) \div 2) + block_size - 1) \div block_size) * block_size

\* the midpoint of handle_range: near the middle, a multiple of block_size past first
Mid(first, last, block_size) ==
  first + ((((last - first) \div 2) + block_size - 1) \div block_size) * block_size

\* ------------------------------------------------- scheduling parameters
SchedulingParams(strategy, cost_per_unit, block_size) ==
  [strategy |-> strategy, cost_per_unit |-> cost_per_unit, block_size |-> block_size]

NoParams == SchedulingParams("kAdaptive", None, None)

\* ------------------------------------------------------------ entry points
\* What an entry point ends in: the algorithm, its arguments, and the callback
\* it is given ("fn": the user's fn; "id_lambda": the lambda of
\* ParallelForWithWorkerId that reads CurrentThreadId() and then calls fn).
\* The cost per unit only feeds the cost model of the device, whose choice of
\* chunk is left open here, so a plan does not carry it.
Plan(kind, total, block_size, fn) ==
  [kind |-> kind, total |-> total, block_size |-> block_size, fn |-> fn]

NoPlan == Plan("none", 0, 0, "fn")

\* ThreadPool::ParallelFor(int32_t total, std::function<void(int32_t)> fn)
ParallelForUniform(total, fn) == Plan("uniform", total, 0, fn)

\* ThreadPool::ParallelForFixedBlockSizeScheduling(total, block_size, fn)
ParallelForFixedBlockSizeScheduling(total, block_size, fn) ==
  Plan("fixed", total, block_size, fn)

\* ThreadPool::ParallelFor(ptrdiff_t total, const TensorOpCost&, fn): total goes
\* to the device unchecked
ParallelForTensorOpCost(total, fn) == Plan("device", total, 0, fn)

\* ThreadPool::ParallelFor(ptrdiff_t total, double cost_per_unit, fn)
ParallelForCost(total, fn) ==
  IF total >= 0 THEN Plan("device", total, 0, fn) ELSE Plan("throw", total, 0, fn)

\* (variant with a slip: has_value() not consulted)
ParallelForParamsUnchecked(total, scheduling_params, fn) ==
  IF scheduling_params.strategy = "kAdaptive"
  THEN ParallelForCost(total, fn)
  ELSE ParallelForFixedBlockSizeScheduling(total, scheduling_params.block_size.val, fn)

\* ThreadPool::ParallelFor(int64_t total, const SchedulingParams&, fn)
ParallelForParams(total, scheduling_params, fn) ==
  IF scheduling_params.strategy = "kAdaptive"
  THEN IF scheduling_params.cost_per_unit.has
       THEN ParallelForCost(total, fn)
       ELSE Plan("nop", total, 0, fn)
  ELSE IF scheduling_params.block_size.has
       THEN ParallelForFixedBlockSizeScheduling(total, scheduling_params.block_size.val, fn)
       ELSE Plan("nop", total, 0, fn)

\* ThreadPool::TransformRangeConcurrently(block_size, total, fn)
TransformRangeConcurrently(block_size, total, fn) ==
  ParallelForParams(total, SchedulingParams("kFixedBlockSize", None, Some(block_size)), fn)

\* ThreadPool::ParallelForWithWorkerId(int64_t total, int64_t cost_per_unit, fn)
ParallelForWithWorkerIdCost(total) ==
  IF total >= 0
  THEN Plan("device", total, 0, "id_lambda")
  ELSE Plan("throw", total, 0, "id_lambda")

\* ThreadPool::ParallelForWithWorkerId(int64_t total, const SchedulingParams&, fn)
ParallelForWithWorkerIdParams(total, scheduling_params) ==
  ParallelForParams(total, scheduling_params, "id_lambda")

\* (variant with a slip: the id clamped at zero instead of shifted)
WorkerIdClamped(t) == IF CurrentThreadId(t) < 0 THEN 0 ELSE CurrentThreadId(t)

\* (variant with a slip: the id not shifted)
WorkerIdUnshifted(t) == CurrentThreadId(t)

\* the id the lambda of ParallelForWithWorkerId passes on: CurrentThreadId() + 1
WorkerId(t) == CurrentThreadId(t) + 1

\* one invocation of the callback on thread t
Invocation(fn, t, first, last) ==
  [first |-> first, last |-> last, thread |-> t,
   id |-> IF fn = "id_lambda" THEN Some(WorkerId(t)) ELSE None]

\* ---------------------------------------------------------------- requests
Request(op, total, block_size, params) ==
  [op |-> op, total |-> total, block_size |-> block_size, params |-> params]

NoRequest == Request("none", 0, 0, NoParams)

UniformTotals == (0 - 1)..MaxIters
Totals == (0 - 1)..MaxTotal
BlockSizes == (0 - 1)..MaxBlock
ParamsSet ==
  { SchedulingParams(s, None, None) : s \in {"kAdaptive", "kFixedBlockSize"} }
  \cup { SchedulingParams("kAdaptive", Some(1), None),
         SchedulingParams("kAdaptive", None, Some(1)),
         SchedulingParams("kFixedBlockSize", Some(1), None) }
  \cup { SchedulingParams("kFixedBlockSize", None, Some(b)) : b \in 1..MaxBlock }

Requests ==
  { Request("ParallelFor", n, 0, NoParams) : n \in UniformTotals }
  \cup { Request(op, n, b, NoParams) :
           op \in {"ParallelForFixedBlockSizeScheduling", "TransformRangeConcurrently",
                   "NumShardsUsedByFixedBlockSizeScheduling",
                   "NumShardsUsedByTransformRangeConcurrently"},
           n \in Totals, b \in BlockSizes }
  \cup { Request(op, n, 0, NoParams) :
           op \in {"ParallelForCost", "ParallelForTensorOpCost",
                   "ParallelForWithWorkerIdCost"}, n \in Totals }
  \cup { Request(op, n, 0, p) :
           op \in {"ParallelForParams", "ParallelForWithWorkerIdParams"},
           n \in Totals, p \in ParamsSet }

\* the scenarios the specification names: total=10 on a single-thread pool,
\* total=7 with block_size=2 on a multi-thread pool
Scenarios ==
  IF NumThreads = 1
  THEN { Request("ParallelFor", 10, 0, NoParams),
         Request("ParallelForFixedBlockSizeScheduling", 10, 3, NoParams),
         Request("NumShardsUsedByFixedBlockSizeScheduling", 10, 3, NoParams) }
  ELSE { Request("ParallelForFixedBlockSizeScheduling", 7, 2, NoParams),
         Request("NumShardsUsedByFixedBlockSizeScheduling", 7, 2, NoParams) }

\* the calls a task of the user makes from a worker
TaskRequests ==
  { r \in Requests : r.op \in {"ParallelFor", "ParallelForFixedBlockSizeScheduling",
                                "ParallelForWithWorkerIdCost",
                                "ParallelForWithWorkerIdParams"} }

IsQuery(r) ==
  r.op \in {"NumShardsUsedByFixedBlockSizeScheduling",
            "NumShardsUsedByTransformRangeConcurrently"}

\* the value a shard-count query returns
Query(r) ==
  IF r.op = "NumShardsUsedByTransformRangeConcurrently"
  THEN NumShardsUsedByTransformRangeConcurrently(r.block_size, r.total)
  ELSE NumShardsUsedByFixedBlockSizeScheduling(r.total, r.block_size)

\* the call of the entry point r names
Entry(r) ==
  CASE r.op = "ParallelFor" -> ParallelForUniform(r.total, "fn")
    [] r.op = "ParallelForFixedBlockSizeScheduling" ->
         ParallelForFixedBlockSizeScheduling(r.total, r.block_size, "fn")
    [] r.op = "TransformRangeConcurrently" ->
         TransformRangeConcurrently(r.block_size, r.total, "fn")
    [] r.op = "ParallelForCost" -> ParallelForCost(r.total, "fn")
    [] r.op = "ParallelForTensorOpCost" -> ParallelForTensorOpCost(r.total, "fn")
    [] r.op = "ParallelForParams" -> ParallelForParams(r.total, r.params, "fn")
    [] r.op = "ParallelForWithWorkerIdCost" -> ParallelForWithWorkerIdCost(r.total)
    [] r.op = "ParallelForWithWorkerIdParams" ->
         ParallelForWithWorkerIdParams(r.total, r.params)
    [] OTHER -> Plan("nop", r.total, 0, "fn")

\* ------------------------------------------------------ closures and frames
\* a closure handed to Schedule: the lambda of ParallelFor's loop (handle_iteration(id)),
\* the lambda of handle_range (handle_range(first, last)), or a task of the user
\* whose body is the call req
Closure(kind, c, first, last, block_size, r) ==
  [kind |-> kind, call |-> c, first |-> first, last |-> last,
   block_size |-> block_size, req |-> r]

\* an empty std::function<void()>
NullClosure == Closure("empty", 0, 0, 0, 0, NoRequest)

\* (variant with a slip: the closure not checked)
ScheduleEnforceNothing(cl) == TRUE

\* ORT_ENFORCE(fn != nullptr) of ThreadPool::Schedule
ScheduleEnforce(cl) == cl # NullClosure

\* (variant with a slip: the closure is dropped)
ScheduleDropped(q, cl) == q

\* ThreadPool::Schedule past its ORT_ENFORCE: the closure goes to the engine's queue
Schedule(q, cl) == q \cup {cl}

\* a call of Schedule by the user, as the request of the calling thread
ScheduleRequest(cl) ==
  [op |-> "Schedule", total |-> 0, block_size |-> 0, params |-> NoParams, fn |-> cl]

\* the activation a thread is in: handle_range's first, last and captured
\* block_size; counted: the callback is followed by Notify / DecrementCount;
\* next: what the thread does after it (idle: a worker's closure ends, wait:
\* the caller goes on to Wait, return: the caller returns)
Frame(c, first, last, block_size, counted, next) ==
  [call |-> c, first |-> first, last |-> last, block_size |-> block_size,
   counted |-> counted, next |-> next]

NoFrame == Frame(0, 0, 0, 0, FALSE, "idle")

Effect(p, f, cnt, n, sched, inv) ==
  [pc |-> p, frame |-> f, counter |-> cnt, shards |-> n, sched |-> sched, inv |-> inv]

\* ThreadPool::ParallelFor(int32_t, fn) up to its scheduling loop
ParallelForStart(t, total, fn) ==
  IF total <= 0 THEN Effect("return", NoFrame, 0, 0, {}, {})
  ELSE IF total = 1
  THEN Effect("fn", Frame(t, 0, 1, 0, FALSE, "return"), 0, 0, {}, {Invocation(fn, t, 0, 1)})
  ELSE Effect("pf_loop", NoFrame, total - 1, 0, {}, {})

\* (variants with a slip: the root always run on the caller; the counter one short)
FixedStartRootOnCaller(t, total, block_size, fn) ==
  LET n == NumShardsUsedByFixedBlockSizeScheduling(total, block_size) IN
  IF n = 1
  THEN Effect("fn", Frame(t, 0, total, block_size, FALSE, "return"), 0, n, {},
              {Invocation(fn, t, 0, total)})
  ELSE Effect("handle_range", Frame(t, 0, total, block_size, TRUE, "wait"), n, n, {}, {})

FixedStartCounterOff(t, total, block_size, fn) ==
  LET n == NumShardsUsedByFixedBlockSizeScheduling(total, block_size) IN
  IF n = 1
  THEN Effect("fn", Frame(t, 0, total, block_size, FALSE, "return"), 0, n, {},
              {Invocation(fn, t, 0, total)})
  ELSE IF n <= NumThreads
  THEN Effect("handle_range", Frame(t, 0, total, block_size, TRUE, "wait"), n - 1, n, {}, {})
  ELSE Effect("wait", NoFrame, n - 1, n,
              {Closure("handle_range", t, 0, total, block_size, NoRequest)}, {})

\* (variant with a slip: the root always handed to the engine)
FixedStartRootScheduled(t, total, block_size, fn) ==
  LET n == NumShardsUsedByFixedBlockSizeScheduling(total, block_size) IN
  IF n = 1
  THEN Effect("fn", Frame(t, 0, total, block_size, FALSE, "return"), 0, n, {},
              {Invocation(fn, t, 0, total)})
  ELSE Effect("wait", NoFrame, n, n,
              {Closure("handle_range", t, 0, total, block_size, NoRequest)}, {})

\* ThreadPool::ParallelForFixedBlockSizeScheduling up to counter.Wait()
FixedStart(t, total, block_size, fn) ==
  LET n == NumShardsUsedByFixedBlockSizeScheduling(total, block_size) IN
  IF n = 1
  THEN Effect("fn", Frame(t, 0, total, block_size, FALSE, "return"), 0, n, {},
              {Invocation(fn, t, 0, total)})
  ELSE IF n <= NumThreads
  THEN Effect("handle_range", Frame(t, 0, total, block_size, TRUE, "wait"), n, n, {}, {})
  ELSE Effect("wait", NoFrame, n, n,
              {Closure("handle_range", t, 0, total, block_size, NoRequest)}, {})

\* threadpool_device_->parallelFor(total, cost, fn): the engine's cost model
\* picks the chunk size (0: not worth splitting) and the range is then cut and
\* joined as in the fixed-block-size algorithm
DeviceParallelFor(t, total, chunk, fn) == FixedStart(t, total, chunk, fn)

\* (variant with a slip: total checked only after the device ran the loop)
StartEffectEnforceLate(t, p, chunk) ==
  CASE p.kind = "uniform" -> ParallelForStart(t, p.total, p.fn)
    [] p.kind = "fixed" -> FixedStart(t, p.total, p.block_size, p.fn)
    [] p.kind = "device" -> DeviceParallelFor(t, p.total, chunk, p.fn)
    [] p.kind = "throw" ->
         Effect("threw", NoFrame, 0, 0, {}, {Invocation(p.fn, t, 0, p.total)})
    [] OTHER -> Effect("return", NoFrame, 0, 0, {}, {})

\* the state a call starts in; chunk is the device's choice
StartEffect(t, p, chunk) ==
  CASE p.kind = "uniform" -> ParallelForStart(t, p.total, p.fn)
    [] p.kind = "fixed" -> FixedStart(t, p.total, p.block_size, p.fn)
    [] p.kind = "device" -> DeviceParallelFor(t, p.total, chunk, p.fn)
    [] p.kind = "throw" -> Effect("threw", NoFrame, 0, 0, {}, {})
    [] OTHER -> Effect("return", NoFrame, 0, 0, {}, {})

\* ------------------------------------------------- integer types, scaled
\* The widths of the integer types, scaled down so that every value of a
\* type can be tried: int and unsigned have IntBits bits, std::ptrdiff_t and
\* int64_t have PtrdiffBits bits.  Only the order of the widths, int narrower
\* than ptrdiff_t, is taken from the platform.
IntBits == 4
PtrdiffBits == 6

Pow2(n) == 2 ^ n

IntMin == 0 - Pow2(IntBits - 1)
IntMax == Pow2(IntBits - 1) - 1
UnsignedMax == Pow2(IntBits) - 1
PtrdiffMin == 0 - Pow2(PtrdiffBits - 1)
PtrdiffMax == Pow2(PtrdiffBits - 1) - 1

IntValues == IntMin..IntMax
PtrdiffValues == PtrdiffMin..PtrdiffMax

\* static_cast<int>(v): the value modulo 2^IntBits, in two's complement
ToInt(v) == ((v - IntMin) % Pow2(IntBits)) + IntMin

\* ------------------------------------------------------------ the factory
Max(a, b) == IF a >= b THEN a ELSE b

\* what a function under evaluation returned: nothing yet, a value, no pool
\* (nullptr), a pool of NumThreads threads, or a failed ORT_ENFORCE
Pending == [kind |-> "pending", val |-> 0]
Returned(v) == [kind |-> "value", val |-> v]
NullPool == [kind |-> "nullptr", val |-> 0]
Pool(num_threads) == [kind |-> "pool", val |-> num_threads]
EnforceFailed == [kind |-> "threw", val |-> 0]

\* ThreadPool::ThreadPool: ORT_ENFORCE(num_threads >= 1), then an engine of
\* num_threads threads
ThreadPoolCtor(num_threads) ==
  IF num_threads >= 1 THEN Pool(num_threads) ELSE EnforceFailed

\* std::max<int>(1, std::thread::hardware_concurrency() / 2): the unsigned
\* count is halved as an unsigned and then converted to int
DefaultThreadPoolSize(hardware_concurrency) ==
  Max(1, ToInt(hardware_concurrency \div 2))

\* (variant with a slip: a size of zero is not taken as "default")
CreateThreadPoolNegativeOnly(thread_pool_size, hardware_concurrency) ==
  LET size == IF thread_pool_size < 0
              THEN DefaultThreadPoolSize(hardware_concurrency)
              ELSE thread_pool_size
  IN  IF size = 1 THEN NullPool ELSE ThreadPoolCtor(size)

\* concurrency::CreateThreadPool(thread_pool_size, ...)
CreateThreadPool(thread_pool_size, hardware_concurrency) ==
  LET size == IF thread_pool_size <= 0
              THEN DefaultThreadPoolSize(hardware_concurrency)
              ELSE thread_pool_size
  IN  IF size = 1 THEN NullPool ELSE ThreadPoolCtor(size)

\* ------------------------------------------- shard counting, in the types
\* NumShardsUsedByFixedBlockSizeScheduling on std::ptrdiff_t arguments with
\* its int result: the values the call can return.  total + block_size - 1
\* is a signed addition: past PtrdiffMax it overflows, which leaves the
\* result open; the quotient is then narrowed to int.
NumShardsReturns(total, block_size) ==
  IF block_size <= 0 \/ total <= 1 \/ total <= block_size \/ NumThreads = 1
  THEN {1}
  ELSE IF total + block_size - 1 > PtrdiffMax
  THEN IntValues
  ELSE {ToInt((total + block_size - 1) \div block_size)}

\* --------------------------------------------------- functions under evaluation
FunCall(op, a, b) == [op |-> op, a |-> a, b |-> b]

NoFunCall == FunCall("none", 0, 0)

\* CreateThreadPool(thread_pool_size, ...) on a machine of hardware_concurrency
\* threads; NumShardsUsedByFixedBlockSizeScheduling(total, block_size)
FunCalls ==
  { FunCall("CreateThreadPool", thread_pool_size, hardware_concurrency) :
      thread_pool_size \in IntValues, hardware_concurrency \in 0..UnsignedMax }
  \cup { FunCall("NumShardsUsedByFixedBlockSizeScheduling", total, block_size) :
           total \in PtrdiffValues, block_size \in PtrdiffValues }

\* where a thread is after its call returned
ReturnPc(t) == IF t \in Outside THEN "done" ELSE "idle"

\* ------------------------------------------------------------------ actions
Init ==
  /\ nthreads \in 1..MaxThreads
  /\ pc = [t \in Threads |-> IF t = MainThread \/ t \in PoolWorkers THEN "idle" ELSE "off"]
  /\ frame = [t \in Threads |-> NoFrame]
  /\ queue = {}
  /\ req = [t \in Threads |-> NoRequest]
  /\ plan = [t \in Threads |-> NoPlan]
  /\ status = [t \in Threads |-> "none"]
  /\ shards = [t \in Threads |-> 0]
  /\ counter = [t \in Threads |-> 0]
  /\ nnotify = [t \in Threads |-> 0]
  /\ nsched = [t \in Threads |-> 0]
  /\ loopid = [t \in Threads |-> 0]
  /\ log = [t \in Threads |-> {}]
  /\ ninv = [t \in Threads |-> 0]
  /\ fcall = NoFunCall
  /\ fret = Pending

\* thread t enters the entry point of r; q is the queue as t found it
Begin(t, r, q) ==
  \E chunk \in (IF Entry(r).kind = "device" THEN 0..MaxChunk ELSE {0}) :
    LET p == Entry(r)
        e == StartEffect(t, p, chunk)
    IN  /\ req' = [req EXCEPT ![t] = r]
        /\ plan' = [plan EXCEPT ![t] = IF p.kind = "device"
                                       THEN [p EXCEPT !.block_size = chunk] ELSE p]
        /\ status' = [status EXCEPT ![t] =
                        CASE e.pc = "return" -> "returned"
                          [] e.pc = "threw" -> "threw"
                          [] OTHER -> "active"]
        /\ pc' = [pc EXCEPT ![t] = IF e.pc = "return" THEN ReturnPc(t) ELSE e.pc]
        /\ frame' = [frame EXCEPT ![t] = e.frame]
        /\ queue' = IF e.sched = {} THEN q
                    ELSE Schedule(q, CHOOSE cl \in e.sched : TRUE)
        /\ shards' = [shards EXCEPT ![t] = IF IsQuery(r) THEN Query(r) ELSE e.shards]
        /\ counter' = [counter EXCEPT ![t] = e.counter]
        /\ nnotify' = [nnotify EXCEPT ![t] = 0]
        /\ nsched' = [nsched EXCEPT ![t] = Cardinality(e.sched)]
        /\ loopid' = [loopid EXCEPT ![t] = 1]
        /\ log' = [log EXCEPT ![t] = e.inv]
        /\ ninv' = [ninv EXCEPT ![t] = Cardinality(e.inv)]
        /\ UNCHANGED <<fcall, fret, nthreads>>

\* a thread outside the pool calls an entry point
Call(t) ==
  /\ pc[t] = "idle"
  /\ \E r \in Requests \cup Scenarios : Begin(t, r, queue)

\* the closures the user hands to Schedule: an empty one, or a task whose body
\* is a parallel-for call
UserClosures(t) ==
  {NullClosure} \cup { Closure("task", t, 0, 0, 0, r) : r \in TaskRequests }

\* a thread outside the pool calls Schedule(cl): an empty closure fails the
\* ORT_ENFORCE, any other goes to the engine and the caller goes on
ScheduleTask(t) ==
  /\ pc[t] = "idle"
  /\ \E cl \in UserClosures(t) :
       /\ req' = [req EXCEPT ![t] = ScheduleRequest(cl)]
       /\ IF ScheduleEnforce(cl)
          THEN /\ queue' = Schedule(queue, cl)
               /\ pc' = [pc EXCEPT ![t] = "done"]
               /\ status' = [status EXCEPT ![t] = "returned"]
          ELSE /\ queue' = queue
               /\ pc' = [pc EXCEPT ![t] = "threw"]
               /\ status' = [status EXCEPT ![t] = "threw"]
  /\ UNCHANGED <<fcall, fret, nthreads, frame, plan, shards, counter, nnotify,
                 nsched, loopid, log, ninv>>

\* a worker takes a task and runs its body: the worker is the caller
TakeTask(w, cl) ==
  /\ w \in PoolWorkers
  /\ pc[w] = "idle"
  /\ cl \in queue
  /\ cl.kind = "task"
  /\ Begin(w, cl.req, queue \ {cl})

\* (variant with a slip: the loop runs to total inclusive)
LoopContinuesInclusive(id, total) == id <= total

\* the condition of ParallelFor's scheduling loop: id < total
LoopContinues(id, total) == id < total

\* ParallelFor's loop: Schedule handle_iteration(id) for id in 1..total-1, then fn(0)
ParallelForLoop(t) ==
  /\ pc[t] = "pf_loop"
  /\ IF LoopContinues(loopid[t], plan[t].total)
     THEN /\ queue' = Schedule(queue, Closure("handle_iteration", t, loopid[t],
                                              loopid[t] + 1, 0, NoRequest))
          /\ loopid' = [loopid EXCEPT ![t] = loopid[t] + 1]
          /\ nsched' = [nsched EXCEPT ![t] = nsched[t] + 1]
          /\ UNCHANGED <<pc, frame, log, ninv>>
     ELSE /\ pc' = [pc EXCEPT ![t] = "fn"]
          /\ frame' = [frame EXCEPT ![t] = Frame(t, 0, 1, 0, FALSE, "wait")]
          /\ log' = [log EXCEPT ![t] = log[t] \cup {Invocation(plan[t].fn, t, 0, 1)}]
          /\ ninv' = [ninv EXCEPT ![t] = ninv[t] + 1]
          /\ UNCHANGED <<queue, loopid, nsched>>
  /\ UNCHANGED <<fcall, fret, nthreads, req, plan, status, shards, counter, nnotify>>

\* a worker takes handle_iteration(id): fn(iteration) starts
TakeIteration(w, cl) ==
  /\ w \in PoolWorkers
  /\ pc[w] = "idle"
  /\ cl \in queue
  /\ cl.kind = "handle_iteration"
  /\ queue' = queue \ {cl}
  /\ pc' = [pc EXCEPT ![w] = "fn"]
  /\ frame' = [frame EXCEPT ![w] = Frame(cl.call, cl.first, cl.last, 0, TRUE, "idle")]
  /\ log' = [log EXCEPT ![cl.call] =
               log[cl.call] \cup {Invocation(plan[cl.call].fn, w, cl.first, cl.last)}]
  /\ ninv' = [ninv EXCEPT ![cl.call] = ninv[cl.call] + 1]
  /\ UNCHANGED <<fcall, fret, nthreads, req, plan, status, shards, counter, nnotify, nsched, loopid>>

\* a worker takes handle_range(first, last)
TakeRange(w, cl) ==
  /\ w \in PoolWorkers
  /\ pc[w] = "idle"
  /\ cl \in queue
  /\ cl.kind = "handle_range"
  /\ queue' = queue \ {cl}
  /\ pc' = [pc EXCEPT ![w] = "handle_range"]
  /\ frame' = [frame EXCEPT ![w] =
                 Frame(cl.call, cl.first, cl.last, cl.block_size, TRUE, "idle")]
  /\ UNCHANGED <<fcall, fret, nthreads, req, plan, status, shards, counter, nnotify, nsched,
                 loopid, log, ninv>>

\* one turn of handle_range's loop: fork [mid, last) and keep [first, mid), or,
\* the range being a block or less, call fn(first, last)
HandleRange(t) ==
  /\ pc[t] = "handle_range"
  /\ LET f == frame[t]
         c == f.call
         mid == Mid(f.first, f.last, f.block_size)
     IN  IF f.last - f.first > f.block_size
         THEN /\ queue' = Schedule(queue, Closure("handle_range", c, mid, f.last,
                                                  f.block_size, NoRequest))
              /\ frame' = [frame EXCEPT ![t].last = mid]
              /\ nsched' = [nsched EXCEPT ![c] = nsched[c] + 1]
              /\ UNCHANGED <<pc, log, ninv>>
         ELSE /\ pc' = [pc EXCEPT ![t] = "fn"]
              /\ log' = [log EXCEPT ![c] =
                           log[c] \cup {Invocation(plan[c].fn, t, f.first, f.last)}]
              /\ ninv' = [ninv EXCEPT ![c] = ninv[c] + 1]
              /\ UNCHANGED <<queue, frame, nsched>>
  /\ UNCHANGED <<fcall, fret, nthreads, req, plan, status, shards, counter, nnotify, loopid>>

\* (variant with a slip: one barrier shared by all calls instead of one per call)
FnReturnSharedBarrier(t) ==
  /\ pc[t] = "fn"
  /\ LET f == frame[t]
         c == MainThread
     IN  /\ counter' = IF f.counted THEN [counter EXCEPT ![c] = counter[c] - 1] ELSE counter
         /\ nnotify' = IF f.counted THEN [nnotify EXCEPT ![c] = nnotify[c] + 1] ELSE nnotify
         /\ pc' = [pc EXCEPT ![t] = IF f.next = "return" THEN ReturnPc(t) ELSE f.next]
         /\ status' = IF f.next = "return" THEN [status EXCEPT ![t] = "returned"] ELSE status
  /\ frame' = [frame EXCEPT ![t] = NoFrame]
  /\ UNCHANGED <<fcall, fret, nthreads, queue, req, plan, shards, nsched, loopid, log, ninv>>

\* the callback returns; inside handle_iteration / handle_range the barrier is
\* notified (the counter decremented) before the activation ends
FnReturn(t) ==
  /\ pc[t] = "fn"
  /\ LET f == frame[t]
         c == f.call
     IN  /\ counter' = IF f.counted THEN [counter EXCEPT ![c] = counter[c] - 1] ELSE counter
         /\ nnotify' = IF f.counted THEN [nnotify EXCEPT ![c] = nnotify[c] + 1] ELSE nnotify
         /\ pc' = [pc EXCEPT ![t] = IF f.next = "return" THEN ReturnPc(t) ELSE f.next]
         /\ status' = IF f.next = "return" THEN [status EXCEPT ![t] = "returned"] ELSE status
  /\ frame' = [frame EXCEPT ![t] = NoFrame]
  /\ UNCHANGED <<fcall, fret, nthreads, queue, req, plan, shards, nsched, loopid, log, ninv>>

\* (variant with a slip: Wait does not block)
WaitAlways(t) ==
  /\ pc[t] = "wait"
  /\ pc' = [pc EXCEPT ![t] = ReturnPc(t)]
  /\ status' = [status EXCEPT ![t] = "returned"]
  /\ UNCHANGED <<fcall, fret, nthreads, frame, queue, req, plan, shards, counter, nnotify,
                 nsched, loopid, log, ninv>>

\* barrier.Wait() / counter.Wait() lets the caller go on once the count is zero
Wait(t) ==
  /\ pc[t] = "wait"
  /\ counter[t] = 0
  /\ pc' = [pc EXCEPT ![t] = ReturnPc(t)]
  /\ status' = [status EXCEPT ![t] = "returned"]
  /\ UNCHANGED <<fcall, fret, nthreads, frame, queue, req, plan, shards, counter, nnotify,
                 nsched, loopid, log, ninv>>

Next ==
  \/ \E t \in Outside : Call(t)
  \/ \E t \in Outside : ScheduleTask(t)
  \/ \E w \in Workers, cl \in queue : TakeTask(w, cl)
  \/ \E w \in Workers, cl \in queue : TakeIteration(w, cl)
  \/ \E w \in Workers, cl \in queue : TakeRange(w, cl)
  \/ \E t \in Threads : ParallelForLoop(t)
  \/ \E t \in Threads : HandleRange(t)
  \/ \E t \in Threads : FnReturn(t)
  \/ \E t \in Threads : Wait(t)

Spec == Init /\ [][Next]_vars

\* ------------------------------------------------------------- fairness
\* a thread goes on with the code it is in: fn terminates, loops turn, a Wait
\* whose count is zero returns
ThreadStep(t) ==
  ParallelForLoop(t) \/ HandleRange(t) \/ FnReturn(t) \/ Wait(t)

\* an idle worker takes a closure from the queue
WorkerTake(w) ==
  \E cl \in queue : TakeTask(w, cl) \/ TakeIteration(w, cl) \/ TakeRange(w, cl)

\* the calls of a thread outside the pool whose return is at stake
OutsideRequests ==
  { r \in Requests \cup Scenarios :
      r.op \in {"ParallelFor", "ParallelForFixedBlockSizeScheduling"} }

OutsideCall(t) ==
  /\ pc[t] = "idle"
  /\ \E r \in OutsideRequests : Begin(t, r, queue)

FairNext ==
  \/ \E t \in Outside : OutsideCall(t)
  \/ \E w \in Workers, cl \in queue : TakeIteration(w, cl)
  \/ \E w \in Workers, cl \in queue : TakeRange(w, cl)
  \/ \E t \in Threads : ParallelForLoop(t)
  \/ \E t \in Threads : HandleRange(t)
  \/ \E t \in Threads : FnReturn(t)
  \/ \E t \in Threads : Wait(t)

\* threads are not stopped, and the engine is fair: a worker with nothing to
\* do and a closure queued takes one.  When a user calls is left open.
FairSpec ==
  /\ Init /\ [][FairNext]_vars
  /\ \A t \in Threads : WF_vars(ThreadStep(t))
  /\ \A w \in Workers : WF_vars(WorkerTake(w))

\* ---------------------------------- several outside threads calling at once
\* the threads outside the pool that call at the same time
Callers == {MainThread, MainThread - 1}

\* what they call: ParallelFor and ParallelForFixedBlockSizeScheduling on
\* totals that are split
ConcurrentRequests ==
  { Request("ParallelFor", n, 0, NoParams) : n \in 2..MaxIters }
  \cup { Request("ParallelForFixedBlockSizeScheduling", n, b, NoParams) :
           n \in {MaxTotal - 1}, b \in (MaxBlock - 1)..MaxBlock }

\* as Init, with every caller about to call
ConcurrentInit ==
  /\ nthreads \in 1..MaxThreads
  /\ pc = [t \in Threads |-> IF t \in Callers \/ t \in PoolWorkers THEN "idle" ELSE "off"]
  /\ frame = [t \in Threads |-> NoFrame]
  /\ queue = {}
  /\ req = [t \in Threads |-> NoRequest]
  /\ plan = [t \in Threads |-> NoPlan]
  /\ status = [t \in Threads |-> "none"]
  /\ shards = [t \in Threads |-> 0]
  /\ counter = [t \in Threads |-> 0]
  /\ nnotify = [t \in Threads |-> 0]
  /\ nsched = [t \in Threads |-> 0]
  /\ loopid = [t \in Threads |-> 0]
  /\ log = [t \in Threads |-> {}]
  /\ ninv = [t \in Threads |-> 0]
  /\ fcall = NoFunCall
  /\ fret = Pending

\* an outside thread calls while the others may be inside their calls
ConcurrentCall(t) ==
  /\ pc[t] = "idle"
  /\ \E r \in ConcurrentRequests : Begin(t, r, queue)

ConcurrentNext ==
  \/ \E t \in Callers : ConcurrentCall(t)
  \/ \E w \in Workers, cl \in queue : TakeIteration(w, cl)
  \/ \E w \in Workers, cl \in queue : TakeRange(w, cl)
  \/ \E t \in Threads : ParallelForLoop(t)
  \/ \E t \in Threads : HandleRange(t)
  \/ \E t \in Threads : FnReturn(t)
  \/ \E t \in Threads : Wait(t)

ConcurrentSpec == ConcurrentInit /\ [][ConcurrentNext]_vars

\* ------------------------------------------- pure functions, evaluated
\* a function is about to be evaluated on some arguments; no thread runs
FunInit ==
  /\ nthreads \in 1..MaxThreads
  /\ pc = [t \in Threads |-> "off"]
  /\ frame = [t \in Threads |-> NoFrame]
  /\ queue = {}
  /\ req = [t \in Threads |-> NoRequest]
  /\ plan = [t \in Threads |-> NoPlan]
  /\ status = [t \in Threads |-> "none"]
  /\ shards = [t \in Threads |-> 0]
  /\ counter = [t \in Threads |-> 0]
  /\ nnotify = [t \in Threads |-> 0]
  /\ nsched = [t \in Threads |-> 0]
  /\ loopid = [t \in Threads |-> 0]
  /\ log = [t \in Threads |-> {}]
  /\ ninv = [t \in Threads |-> 0]
  /\ fcall \in FunCalls
  /\ fret = Pending

CreateThreadPoolCall ==
  /\ fcall.op = "CreateThreadPool"
  /\ fret = Pending
  /\ fret' = CreateThreadPool(fcall.a, fcall.b)
  /\ UNCHANGED <<fcall, nthreads, pc, frame, queue, req, plan, status, shards,
                 counter, nnotify, nsched, loopid, log, ninv>>

NumShardsCall ==
  /\ fcall.op = "NumShardsUsedByFixedBlockSizeScheduling"
  /\ fret = Pending
  /\ \E n \in NumShardsReturns(fcall.a, fcall.b) : fret' = Returned(n)
  /\ UNCHANGED <<fcall, nthreads, pc, frame, queue, req, plan, status, shards,
                 counter, nnotify, nsched, loopid, log, ninv>>

FunNext == CreateThreadPoolCall \/ NumShardsCall

FunSpec == FunInit /\ [][FunNext]_vars

\* -------------------------------------------------------------- properties
Min(a, b) == IF a <= b THEN a ELSE b

\* ceil(a / b) for b > 0: the least k with k * b >= a
CeilDiv(a, b) == CHOOSE k \in 0..(IF a > 0 THEN a ELSE 0) : k * b >= a /\ (k - 1) * b < a

\* the closures of call c still in the queue, and the threads running one of
\* its activations (handle_range or the callback)
Queued(c) == { cl \in queue : cl.kind # "task" /\ cl.call = c }
Running(c) == { t \in Threads : pc[t] \in {"handle_range", "fn"} /\ frame[t].call = c }
InCallback(c) == { t \in Threads : pc[t] = "fn" /\ frame[t].call = c }

\* the indices / ranges call c has passed to fn
Indices(c) == { rec.first : rec \in log[c] }
Ranges(c) == { <<rec.first, rec.last>> : rec \in log[c] }
Disjoint(r1, r2) == r1[2] <= r2[1] \/ r2[2] <= r1[1]

IsUniform(c) == req[c].op = "ParallelFor"
IsFixed(c) == req[c].op = "ParallelForFixedBlockSizeScheduling"

\* C1: ParallelFor(total, fn) invokes fn for indices of [0, total) only, never
\* twice for one index, and by the time it returns once for each of them; with
\* total <= 0 it invokes fn zero times and schedules nothing.
C1_ExactlyOncePerIndex ==
  \A c \in Threads :
    IsUniform(c) =>
      /\ \A rec \in log[c] : rec.first \in 0..(req[c].total - 1) /\ rec.last = rec.first + 1
      /\ ninv[c] = Cardinality(Indices(c))
      /\ \A cl \in Queued(c) : cl.first \in 1..(req[c].total - 1) /\ cl.first \notin Indices(c)
      /\ status[c] = "returned" =>
           /\ Indices(c) = 0..(req[c].total - 1)
           /\ ninv[c] = (IF req[c].total > 0 THEN req[c].total ELSE 0)
      /\ req[c].total <= 0 => ninv[c] = 0 /\ nsched[c] = 0 /\ status[c] = "returned"

C1_Witness ==
  \E c \in Threads :
    /\ IsUniform(c) /\ req[c].total = MaxIters /\ status[c] = "returned"
    /\ NumThreads > 1
    /\ Cardinality({ rec.thread : rec \in log[c] }) > 2

\* C2: with total >= 2 the barrier starts at total-1 and is notified once after
\* each scheduled fn(i), never more than total-1 times; ParallelFor returns only
\* with the count at zero, all total invocations finished, and no closure of the
\* call queued or running.
C2_ReturnsAfterAll ==
  \A c \in Threads :
    (IsUniform(c) /\ req[c].total >= 2) =>
      /\ counter[c] + nnotify[c] = req[c].total - 1
      /\ counter[c] >= 0
      /\ nnotify[c] + Cardinality({ t \in InCallback(c) : frame[t].counted })
           = Cardinality({ rec \in log[c] : rec.first >= 1 })
      /\ status[c] = "returned" =>
           /\ counter[c] = 0
           /\ nnotify[c] = req[c].total - 1
           /\ ninv[c] = req[c].total
           /\ Queued(c) = {}
           /\ Running(c) = {}

C2_Witness ==
  \E c \in Threads :
    /\ IsUniform(c) /\ req[c].total = MaxIters /\ status[c] = "returned"
    /\ nnotify[c] = MaxIters - 1

\* the block-aligned ranges of [0, total):
\* [k*block_size, min((k+1)*block_size, total)) for 0 <= k < ceil(total/block_size)
BlockAligned(total, block_size) ==
  { <<k * block_size, Min((k + 1) * block_size, total)>> :
      k \in 0..(CeilDiv(total, block_size) - 1) }

\* C3: for total >= 1 and block_size > 0 the ranges ParallelForFixedBlockSizeScheduling
\* passes to fn lie in [0, total), are pairwise disjoint, none is passed twice, at
\* return they cover [0, total), and when the call is split each has a length
\* between 1 and block_size.
C3_RangesTile ==
  \A c \in Threads :
    (IsFixed(c) /\ req[c].total >= 1 /\ req[c].block_size > 0) =>
      /\ \A rec \in log[c] : 0 <= rec.first /\ rec.first < rec.last /\ rec.last <= req[c].total
      /\ \A r1, r2 \in Ranges(c) : r1 = r2 \/ Disjoint(r1, r2)
      /\ ninv[c] = Cardinality(Ranges(c))
      /\ shards[c] > 1 =>
           \A rec \in log[c] : rec.last - rec.first \in 1..req[c].block_size
      /\ status[c] = "returned" =>
           \A i \in 0..(req[c].total - 1) :
             \E rec \in log[c] : rec.first <= i /\ i < rec.last

C3_Witness ==
  \E c \in Threads :
    /\ IsFixed(c) /\ status[c] = "returned"
    /\ req[c].total = MaxTotal /\ req[c].block_size = MaxBlock
    /\ shards[c] > 1
    /\ \E rec \in log[c] : rec.last - rec.first < req[c].block_size

\* C4: when the call is split, the ranges passed to fn are block-aligned in every
\* state, and at return they are exactly the block-aligned ranges of [0, total),
\* whatever the thread count and the interleaving; total=7, block_size=2 gives
\* [0,2), [2,4), [4,6), [6,7).
C4_BlockAligned ==
  \A c \in Threads :
    (IsFixed(c) /\ shards[c] > 1) =>
      /\ Ranges(c) \subseteq BlockAligned(req[c].total, req[c].block_size)
      /\ \A cl \in Queued(c) : cl.first % req[c].block_size = 0
      /\ \A t \in Running(c) : frame[t].first % req[c].block_size = 0
      /\ status[c] = "returned" =>
           /\ Ranges(c) = BlockAligned(req[c].total, req[c].block_size)
           /\ (req[c].total = 7 /\ req[c].block_size = 2) =>
                Ranges(c) = {<<0, 2>>, <<2, 4>>, <<4, 6>>, <<6, 7>>}

C4_Witness ==
  \E c \in Threads :
    /\ IsFixed(c) /\ status[c] = "returned"
    /\ req[c].total = 7 /\ req[c].block_size = 2
    /\ shards[c] = 4
    /\ Cardinality({ rec.thread : rec \in log[c] }) > 1

\* C5: the number of fn invocations of ParallelForFixedBlockSizeScheduling (also
\* reached through TransformRangeConcurrently) is the value the shard-count
\* functions return; the BlockingCounter starts at num_shards_used, is decremented
\* once per leaf after its fn, never goes below zero, and the call returns only
\* with the counter at zero and every leaf fn finished.
C5_ShardCountIsLeafCount ==
  \A c \in Threads :
    (IsFixed(c) \/ req[c].op = "TransformRangeConcurrently") =>
      /\ ninv[c] <= NumShardsUsedByFixedBlockSizeScheduling(req[c].total, req[c].block_size)
      /\ shards[c] > 1 =>
           /\ counter[c] + nnotify[c] = shards[c]
           /\ counter[c] >= 0
           /\ nnotify[c] + Cardinality(InCallback(c)) = ninv[c]
      /\ status[c] = "returned" =>
           /\ ninv[c] = NumShardsUsedByFixedBlockSizeScheduling(req[c].total, req[c].block_size)
           /\ ninv[c] = NumShardsUsedByTransformRangeConcurrently(req[c].block_size, req[c].total)
           /\ ninv[c] = shards[c]
           /\ shards[c] > 1 => counter[c] = 0 /\ nnotify[c] = shards[c]
           /\ Queued(c) = {}
           /\ Running(c) = {}

C5_Witness ==
  \E c \in Threads :
    /\ req[c].op = "TransformRangeConcurrently" /\ status[c] = "returned"
    /\ shards[c] > NumThreads
    /\ ninv[c] = MaxTotal

\* the shard count as the specification states it
ExpectedShards(total, block_size) ==
  IF block_size <= 0 \/ total <= 1 \/ total <= block_size \/ NumThreads = 1
  THEN 1
  ELSE CeilDiv(total, block_size)

\* C6: NumShardsUsedByFixedBlockSizeScheduling returns 1 when block_size <= 0,
\* total <= 1, total <= block_size or NumThreads() = 1, and ceil(total/block_size),
\* which is then >= 2, otherwise; the alias with swapped arguments and the call
\* ParallelForFixedBlockSizeScheduling makes itself return the same value for the
\* same arguments and thread count.
C6_ShardCount ==
  \A c \in Threads :
    ((IsQuery(req[c]) \/ IsFixed(c)) /\ status[c] # "none") =>
      /\ shards[c] = ExpectedShards(req[c].total, req[c].block_size)
      /\ shards[c] >= 1
      /\ shards[c] # 1 =>
           /\ shards[c] >= 2
           /\ shards[c] * req[c].block_size >= req[c].total
           /\ (shards[c] - 1) * req[c].block_size < req[c].total
           /\ NumThreads > 1 /\ req[c].block_size > 0 /\ req[c].total > req[c].block_size

C6_Witness ==
  \E c \in Threads :
    /\ req[c].op = "NumShardsUsedByTransformRangeConcurrently"
    /\ status[c] = "returned"
    /\ req[c].total = MaxTotal /\ req[c].block_size = MaxBlock
    /\ shards[c] = CeilDiv(MaxTotal, MaxBlock) /\ shards[c] >= 2

\* when the shard count is 1
SingleShard(total, block_size) ==
  NumThreads = 1 \/ block_size <= 0 \/ total <= block_size \/ total <= 1

\* C7: when the shard count is 1 (single-thread pool, block_size <= 0,
\* total <= block_size or total <= 1, zero and negative totals included)
\* ParallelForFixedBlockSizeScheduling calls fn(0, total) once, on the calling
\* thread, schedules nothing and never waits on a counter; ParallelFor on a
\* single-thread pool still calls fn(i) once for every i in [0, total).
C7_SingleShardInline ==
  \A c \in Threads :
    /\ (IsFixed(c) /\ SingleShard(req[c].total, req[c].block_size)) =>
         /\ nsched[c] = 0 /\ Queued(c) = {}
         /\ nnotify[c] = 0
         /\ pc[c] # "wait"
         /\ ninv[c] = 1
         /\ \A rec \in log[c] :
              rec.first = 0 /\ rec.last = req[c].total /\ rec.thread = c
         /\ Running(c) \subseteq {c}
         /\ status[c] = "returned" => Cardinality(log[c]) = 1
    /\ (IsUniform(c) /\ NumThreads = 1 /\ status[c] = "returned") =>
         /\ Indices(c) = 0..(req[c].total - 1)
         /\ ninv[c] = Cardinality(Indices(c))

C7_Witness ==
  \E c \in Threads :
    /\ NumThreads = 1 /\ status[c] = "returned"
    /\ IsFixed(c) /\ req[c].total = 10 /\ req[c].block_size = 3
    /\ shards[c] = 1
    /\ log[c] = {[first |-> 0, last |-> 10, thread |-> c, id |-> None]}

\* the caller of call c is past its own share of the work: blocked in Wait, or returned
AtJoin(c) == status[c] = "returned" \/ (status[c] = "active" /\ pc[c] = "wait")

\* the caller itself ran the invocation that starts at 0
RanFirstItself(c) == \E rec \in log[c] : rec.first = 0 /\ rec.thread = c

\* C8 as claimed: in ParallelFor the caller runs fn(0) itself and in
\* ParallelForFixedBlockSizeScheduling, for every (total, block_size,
\* NumThreads()), it runs the leftmost leaf itself before blocking on the counter.
C8_CallerAlwaysParticipates ==
  \A c \in Threads :
    AtJoin(c) =>
      /\ (IsUniform(c) /\ req[c].total >= 1) => RanFirstItself(c)
      /\ IsFixed(c) => RanFirstItself(c)

\* C8 amended: in ParallelFor (total >= 1) the caller runs fn(0) itself; in
\* ParallelForFixedBlockSizeScheduling it runs the root split and the leftmost
\* leaf itself before blocking exactly when num_shards_used <= NumThreads(); when
\* num_shards_used > NumThreads() the root is scheduled, the caller runs no fn of
\* the call and only waits.
C8_CallerParticipation ==
  \A c \in Threads :
    /\ (AtJoin(c) /\ IsUniform(c) /\ req[c].total >= 1) => RanFirstItself(c)
    /\ (IsFixed(c) /\ status[c] # "none" /\ shards[c] <= NumThreads) =>
         /\ AtJoin(c) => RanFirstItself(c)
         /\ \A cl \in Queued(c) : cl.first > 0
         /\ \A t \in Running(c) : frame[t].first = 0 => t = c
    /\ (IsFixed(c) /\ status[c] # "none" /\ shards[c] > NumThreads) =>
         /\ AtJoin(c)
         /\ nsched[c] >= 1
         /\ \A rec \in log[c] : rec.thread # c
         /\ c \notin Running(c)

C8_Witness ==
  \E c \in Threads :
    /\ IsFixed(c) /\ status[c] = "returned"
    /\ shards[c] > NumThreads /\ NumThreads > 1
    /\ ninv[c] = shards[c]
    /\ \A rec \in log[c] : rec.thread # c

\* the SchedulingParams of a dispatching call
ParamsOf(c) ==
  IF req[c].op = "TransformRangeConcurrently"
  THEN SchedulingParams("kFixedBlockSize", None, Some(req[c].block_size))
  ELSE req[c].params

FieldPresent(sp) ==
  IF sp.strategy = "kAdaptive" THEN sp.cost_per_unit.has ELSE sp.block_size.has

\* C9: the dispatching ParallelFor branches on the strategy alone: with the
\* strategy's field absent it invokes fn zero times, schedules nothing and returns
\* normally for every total; with the block size present (also through
\* TransformRangeConcurrently(block_size, total, fn)) it is
\* ParallelForFixedBlockSizeScheduling(total, block_size, fn), and with the cost
\* present it is the cost-based ParallelFor(total, cost, fn), which throws on
\* total < 0.
C9_DispatchByStrategy ==
  \A c \in Threads :
    (req[c].op \in {"ParallelForParams", "TransformRangeConcurrently"} /\ status[c] # "none") =>
      LET sp == ParamsOf(c) IN
      /\ ~FieldPresent(sp) =>
           /\ status[c] = "returned"
           /\ ninv[c] = 0 /\ log[c] = {} /\ nsched[c] = 0 /\ nnotify[c] = 0
           /\ Queued(c) = {} /\ Running(c) = {}
      /\ (FieldPresent(sp) /\ sp.strategy = "kFixedBlockSize") =>
           /\ plan[c] = [kind |-> "fixed", total |-> req[c].total,
                         block_size |-> sp.block_size.val, fn |-> "fn"]
           /\ shards[c] = ExpectedShards(req[c].total, sp.block_size.val)
           /\ status[c] = "returned" =>
                Ranges(c) = IF shards[c] > 1
                            THEN BlockAligned(req[c].total, sp.block_size.val)
                            ELSE {<<0, req[c].total>>}
      /\ (FieldPresent(sp) /\ sp.strategy = "kAdaptive") =>
           IF req[c].total >= 0
           THEN plan[c].kind = "device" /\ plan[c].total = req[c].total /\ plan[c].fn = "fn"
           ELSE status[c] = "threw" /\ ninv[c] = 0 /\ nsched[c] = 0

C9_Witness ==
  \E c \in Threads :
    /\ req[c].op = "ParallelForParams" /\ status[c] = "returned"
    /\ req[c].params = SchedulingParams("kFixedBlockSize", Some(1), None)
    /\ req[c].total = MaxTotal /\ NumThreads > 1
    /\ ninv[c] = 0 /\ queue = {}

IsWithWorkerId(c) ==
  req[c].op \in {"ParallelForWithWorkerIdCost", "ParallelForWithWorkerIdParams"}

\* every id passed to fn is CurrentThreadId() + 1 of the thread that runs the
\* invocation: 0 outside the pool, w + 1 on worker w, so within [0, NumThreads()]
IdsAreShiftedThreadIds(c) ==
  \A rec \in log[c] :
    /\ rec.id.has
    /\ rec.id.val = (IF rec.thread \in PoolWorkers THEN rec.thread + 1 ELSE 0)
    /\ rec.id.val \in 0..NumThreads

\* C10 as claimed: inside ParallelForWithWorkerId every id is CurrentThreadId() + 1
\* of the running thread, hence in [0, NumThreads()], and an invocation run
\* synchronously by the calling thread observes id 0.
C10_CallerObservesZero ==
  \A c \in Threads :
    IsWithWorkerId(c) =>
      /\ IdsAreShiftedThreadIds(c)
      /\ \A rec \in log[c] : rec.thread = c => rec.id.val = 0

\* C10 amended: every id is CurrentThreadId() + 1 of the running thread, hence in
\* [0, NumThreads()]; an invocation run synchronously by a calling thread that is
\* outside the pool observes id 0, one run by a calling thread that is worker w
\* observes w + 1.
C10_WorkerIds ==
  \A c \in Threads :
    IsWithWorkerId(c) =>
      /\ IdsAreShiftedThreadIds(c)
      /\ \A rec \in log[c] :
           rec.thread = c => rec.id.val = (IF c \in Outside THEN 0 ELSE c + 1)

C10_Witness ==
  \E c \in Outside :
    /\ req[c].op = "ParallelForWithWorkerIdParams" /\ status[c] = "returned"
    /\ \E rec \in log[c] : rec.thread = c /\ rec.id.val = 0
    /\ \E rec \in log[c] : rec.thread = NumThreads - 1 /\ rec.id.val = NumThreads
    /\ NumThreads > 1

\* the size the factory settles on, as the specification words it
EffectiveSize(thread_pool_size, hardware_concurrency) ==
  IF thread_pool_size > 0 THEN thread_pool_size
  ELSE Max(1, hardware_concurrency \div 2)

\* C13: CreateThreadPool settles on thread_pool_size when it is positive and on
\* max(1, hardware_concurrency / 2) otherwise; it returns no pool exactly when
\* that size is 1 and otherwise a pool whose NumThreads() is that size, so a
\* returned pool has at least 2 threads and the constructor's
\* ORT_ENFORCE(num_threads >= 1) never fails through the factory.
C13_FactorySize ==
  (fcall.op = "CreateThreadPool" /\ fret # Pending) =>
    LET size == EffectiveSize(fcall.a, fcall.b)
    IN  /\ (fret = NullPool) <=> (size = 1)
        /\ size # 1 => fret = Pool(size)
        /\ fret # EnforceFailed
        /\ fret.kind = "pool" => fret.val >= 2

\* the default size on a machine of 5 hardware threads: a pool of 2
C13_Witness ==
  /\ fcall = FunCall("CreateThreadPool", 0, 5)
  /\ fret = Pool(2)

\* the splitting path of the shard count: none of its early returns taken
OnSplittingPath(total, block_size) ==
  ~(block_size <= 0 \/ total <= 1 \/ total <= block_size \/ NumThreads = 1)

\* C19: for every total and block_size of the 64-bit type on the splitting
\* path, NumShardsUsedByFixedBlockSizeScheduling returns the mathematical
\* ceil(total / block_size): the sum total + block_size - 1 does not wrap and
\* the narrowing to int loses nothing.
C19_ExactCeiling ==
  (/\ fcall.op = "NumShardsUsedByFixedBlockSizeScheduling"
   /\ fret # Pending
   /\ OnSplittingPath(fcall.a, fcall.b)) =>
    fret = Returned(CeilDiv(fcall.a, fcall.b))

\* the parallel-for entry points
IsParallelFor(c) ==
  req[c].op \in {"ParallelFor", "ParallelForFixedBlockSizeScheduling",
                 "TransformRangeConcurrently", "ParallelForCost",
                 "ParallelForTensorOpCost", "ParallelForParams",
                 "ParallelForWithWorkerIdCost", "ParallelForWithWorkerIdParams"}

\* no fn invocation of call c has started and nothing of it was scheduled
NothingStarted(c) ==
  /\ ninv[c] = 0 /\ log[c] = {} /\ nsched[c] = 0
  /\ Queued(c) = {} /\ Running(c) = {}

\* every partition of call c ran to completion: each index of [0, total) was
\* passed to fn exactly once and nothing of the call is queued or running
AllPartitionsDone(c) ==
  /\ \A i \in 0..(req[c].total - 1) :
       Cardinality({ rec \in log[c] : rec.first <= i /\ i < rec.last }) = 1
  /\ ninv[c] = Cardinality(log[c])
  /\ Queued(c) = {} /\ Running(c) = {}

\* a dispatching call whose SchedulingParams lack the field of their strategy
MissingField(c) ==
  /\ req[c].op \in {"ParallelForParams", "ParallelForWithWorkerIdParams"}
  /\ ~FieldPresent(req[c].params)

\* C11 as claimed: a call of a parallel-for entry point that has ended either ran
\* every partition to completion or aborted on a precondition violation before
\* any fn invocation of it started.
C11_CompleteOrAborted ==
  \A c \in Threads :
    IsParallelFor(c) =>
      /\ status[c] = "threw" => NothingStarted(c)
      /\ status[c] = "returned" => AllPartitionsDone(c)

\* C11: there is no partial outcome.  A call of a parallel-for entry point that
\* has ended either ran every partition to completion, or aborted on a failed
\* ORT_ENFORCE (total < 0 in ParallelFor(total, double, fn) and in
\* ParallelForWithWorkerId(total, cost, fn)) before any fn invocation of it
\* started, or, the SchedulingParams lacking the field of their strategy,
\* returned normally with no fn invocation started and nothing scheduled.
C11_NoPartialFailure ==
  \A c \in Threads :
    IsParallelFor(c) =>
      /\ status[c] = "threw" =>
           /\ NothingStarted(c)
           /\ req[c].total < 0
      /\ status[c] = "returned" =>
           IF MissingField(c) THEN NothingStarted(c) ELSE AllPartitionsDone(c)

\* ParallelForWithWorkerId(total, cost, fn) with total < 0 has thrown
C11_Witness ==
  \E c \in Threads :
    /\ req[c].op = "ParallelForWithWorkerIdCost"
    /\ status[c] = "threw"
    /\ log[c] = {}

\* thread t has called Schedule; the closure it handed over
CalledSchedule(t) == req[t].op = "Schedule"

\* C12: Schedule called with an empty closure fails its ORT_ENFORCE and leaves
\* the engine's queue as it was; called with a non-empty closure it adds that
\* one closure, and nothing else, to the queue and returns, and the calling
\* thread never runs the closure itself.
C12_ScheduleEnqueuesOrFails ==
  /\ [][\A t \in Outside :
          (req[t].op = "none" /\ req'[t].op = "Schedule") =>
            LET cl == req'[t].fn IN
            IF cl = NullClosure
            THEN /\ status'[t] = "threw"
                 /\ queue' = queue
            ELSE /\ status'[t] = "returned"
                 /\ cl \notin queue
                 /\ queue' = queue \cup {cl}
                 /\ Cardinality(queue') = Cardinality(queue) + 1
                 /\ frame'[t] = NoFrame
                 /\ log' = log /\ ninv' = ninv]_vars
  /\ [](\A t \in Outside :
          CalledSchedule(t) =>
            /\ pc[t] \in {"done", "threw"}
            /\ \A c \in Threads : \A rec \in log[c] : rec.thread # t)

\* an empty closure was handed to Schedule: the call threw, the queue is empty
C12_Witness ==
  \E t \in Outside :
    /\ CalledSchedule(t)
    /\ req[t].fn = NullClosure
    /\ status[t] = "threw"
    /\ queue = {}

\* the fn invocations of call c that end in Notify / DecrementCount on its
\* barrier or counter: all but fn(0) in ParallelFor, every leaf of a split call
Counted(c) ==
  IF IsUniform(c) THEN { rec \in log[c] : rec.first >= 1 } ELSE log[c]

\* what the barrier or counter of call c starts at
InitialCount(c) ==
  IF IsUniform(c) THEN req[c].total - 1 ELSE shards[c]

\* C14: with several outside threads inside ParallelFor or
\* ParallelForFixedBlockSizeScheduling on one pool at once, under every
\* interleaving each call passes every index / leaf range of its own [0, total)
\* to its fn at most once and, by its return, exactly once; the barrier or
\* counter of a call has been decremented once for each finished scheduled
\* invocation of that call and by nothing else; and a call returns only with
\* its count at zero and none of its closures queued or running.
C14_ConcurrentCallsIndependent ==
  \A c \in Callers :
    (status[c] # "none" /\ (IsUniform(c) \/ shards[c] > 1)) =>
      /\ \A i \in 0..(req[c].total - 1) :
           Cardinality({ rec \in log[c] : rec.first <= i /\ i < rec.last }) <= 1
      /\ \A rec \in log[c] : 0 <= rec.first /\ rec.first < rec.last /\ rec.last <= req[c].total
      /\ ninv[c] = Cardinality(log[c])
      /\ counter[c] >= 0
      /\ counter[c] + nnotify[c] = InitialCount(c)
      /\ nnotify[c] + Cardinality({ t \in InCallback(c) : frame[t].counted })
           = Cardinality(Counted(c))
      /\ status[c] = "returned" => (AllPartitionsDone(c) /\ counter[c] = 0)

\* two outside callers are inside their calls at once, closures of both are
\* queued, and one worker has run invocations of both
C14_Witness ==
  /\ \A c \in Callers : status[c] = "active" /\ Queued(c) # {}
  /\ \E w \in PoolWorkers :
       \A c \in Callers : \E rec \in log[c] : rec.thread = w
  /\ \E c \in Callers : IsUniform(c)
  /\ \E c \in Callers : IsFixed(c)

\* the root handle_range(0, total) of call c runs, or ran, on the calling thread
RootOnCaller(c) ==
  /\ pc[c] \in {"handle_range", "fn"} \/ (\E rec \in log[c] : rec.thread = c)
  /\ \A cl \in Queued(c) : cl.first > 0
  /\ \A rec \in log[c] : rec.first = 0 => rec.thread = c

\* the root of call c was handed to the engine: the caller only waits
RootScheduled(c) ==
  /\ status[c] = "active" => pc[c] = "wait"
  /\ \A rec \in log[c] : rec.thread # c
  /\ nsched[c] >= 1

\* C15: in ParallelForFixedBlockSizeScheduling with more than one shard the
\* root handle_range(0, total) runs on the calling thread if and only if
\* num_shards_used <= NumThreads() and is otherwise scheduled; either way the
\* fn invocations of a call made from outside the pool never run on more than
\* NumThreads() threads at once; and by its return the call has enqueued
\* num_shards_used - 1 closures when the root ran on the caller and
\* num_shards_used when it was scheduled.
C15_RootPlacement ==
  \A c \in Threads :
    (IsFixed(c) /\ shards[c] > 1 /\ status[c] # "none") =>
      /\ RootOnCaller(c) <=> shards[c] <= NumThreads
      /\ ~RootOnCaller(c) => RootScheduled(c)
      /\ c \in Outside => Cardinality(InCallback(c)) <= NumThreads
      /\ nsched[c] <= (IF shards[c] <= NumThreads THEN shards[c] - 1 ELSE shards[c])
      /\ status[c] = "returned" =>
           nsched[c] = (IF RootOnCaller(c) THEN shards[c] - 1 ELSE shards[c])

\* a call from outside with more shards than threads: the root was scheduled,
\* and every worker of the pool is inside fn at once
C15_Witness ==
  /\ IsFixed(MainThread) /\ status[MainThread] = "active"
  /\ shards[MainThread] > NumThreads
  /\ NumThreads = MaxThreads
  /\ InCallback(MainThread) = PoolWorkers
  /\ nsched[MainThread] = shards[MainThread]

\* thread t is in handle_range on a range longer than a block, about to split it
AtSplit(t) ==
  /\ pc[t] = "handle_range"
  /\ frame[t].last - frame[t].first > frame[t].block_size

\* the step splits the range of t at mid: [mid, last) goes to the engine as one
\* new closure of the same call and t keeps [first, mid)
SplitsAt(t, mid) ==
  LET f == frame[t]
      right == Closure("handle_range", f.call, mid, f.last, f.block_size, NoRequest)
  IN  /\ pc'[t] = "handle_range"
      /\ frame'[t] = [f EXCEPT !.last = mid]
      /\ right \notin queue
      /\ queue' = queue \cup {right}

\* C16 as claimed: every split of [first, last) with last - first > block_size
\* is at mid = first + ceil_div(last - first, 2*block_size) * block_size, the
\* right part forked and the left part kept.
C16_MidpointAsClaimed ==
  [][\A t \in Threads :
       (AtSplit(t) /\ frame'[t] # frame[t]) =>
         SplitsAt(t, frame[t].first
                       + CeilDiv(frame[t].last - frame[t].first, 2 * frame[t].block_size)
                         * frame[t].block_size)]_vars

\* C16: every split of [first, last) with last - first > block_size is at
\* mid = first + ceil_div((last - first) div 2, block_size) * block_size, the
\* half taken by integer division before it is rounded up to a block; the right
\* part [mid, last) is forked to the engine and the loop goes on with the left
\* part [first, mid).
C16_Midpoint ==
  [][\A t \in Threads :
       (AtSplit(t) /\ frame'[t] # frame[t]) =>
         SplitsAt(t, frame[t].first
                       + CeilDiv((frame[t].last - frame[t].first) \div 2, frame[t].block_size)
                         * frame[t].block_size)]_vars

\* [0, 5) with block_size 2 was split at 2, where the two formulas differ:
\* [2, 5) is queued and the thread goes on with [0, 2)
C16_Witness ==
  \E t \in Threads :
    /\ pc[t] = "handle_range"
    /\ frame[t].first = 0 /\ frame[t].last = 2 /\ frame[t].block_size = 2
    /\ \E cl \in Queued(frame[t].call) : cl.first = 2 /\ cl.last = 5

\* C17: with fn terminating and the engine fair, every ParallelFor and every
\* ParallelForFixedBlockSizeScheduling call made by a thread outside the pool
\* eventually returns; every split is at a mid with first < mid < last, so the
\* splitting loop ends; and a call once under way leaves that state only by
\* returning with every partition run: there is no abort or early return.
C17_OutsideCallsReturn ==
  /\ \A c \in Outside :
       (status[c] = "active" /\ (IsUniform(c) \/ IsFixed(c))) ~> (status[c] = "returned")
  /\ [](\A t \in Threads :
          AtSplit(t) =>
            /\ frame[t].first < Mid(frame[t].first, frame[t].last, frame[t].block_size)
            /\ Mid(frame[t].first, frame[t].last, frame[t].block_size) < frame[t].last)
  /\ [][\A c \in Outside :
          (status[c] = "active" /\ status'[c] # "active") =>
            (status'[c] = "returned" /\ AllPartitionsDone(c)')]_vars

\* ParallelFor(10, fn) from outside on a single-thread pool has returned: the
\* one worker ran the nine scheduled invocations
C17_Witness ==
  /\ NumThreads = 1
  /\ IsUniform(MainThread) /\ req[MainThread].total = 10
  /\ status[MainThread] = "returned"
  /\ Cardinality({ rec \in log[MainThread] : rec.thread = 0 }) = 9

\* C18 as claimed: no reachable state has every worker of the pool blocked in
\* the Wait of a parallel-for call it made while closures those calls depend on
\* are still queued.
C18_NoSaturatedWait ==
  ~(\A w \in PoolWorkers :
      /\ status[w] = "active"
      /\ pc[w] = "wait"
      /\ counter[w] > 0
      /\ Queued(w) # {})

\* the worker id the invocation thread t is running for call c was given
IdSeenBy(c, t) ==
  (CHOOSE rec \in log[c] : rec.thread = t /\ rec.first = frame[t].first).id.val

\* C20: within one ParallelForWithWorkerId call (fn starts no parallel-for of
\* its own) any two fn invocations running at the same time were given
\* different worker ids, each within 0..NumThreads(), so no slot of a scratch
\* array of NumThreads()+1 entries is used by two running invocations at once.
C20_DistinctIdsWhileRunning ==
  \A c \in Threads :
    IsWithWorkerId(c) =>
      /\ \A t \in InCallback(c) : IdSeenBy(c, t) \in 0..NumThreads
      /\ \A t1, t2 \in InCallback(c) : t1 # t2 => IdSeenBy(c, t1) # IdSeenBy(c, t2)

\* the outside caller and worker 0 are inside fn of one ParallelForWithWorkerId
\* call at the same time, with ids 0 and 1
C20_Witness ==
  /\ IsWithWorkerId(MainThread)
  /\ {MainThread, 0} \subseteq InCallback(MainThread)
  /\ IdSeenBy(MainThread, MainThread) = 0
  /\ IdSeenBy(MainThread, 0) = 1
====
